---- MODULE Spec2Model ----
(***************************************************************************)
(* s3mothball: objects of an S3 prefix are fetched by a bounded thread     *)
(* pool (threaded_queue), written by one sequential writer into a tar      *)
(* archive (write_tar, LoggingTarFile), described by a CSV manifest, and   *)
(* later validated (validate_tar) and read back (open_archived_file).      *)
(*                                                                         *)
(* Strings are sequences of character codes (naturals); decimal strings    *)
(* are sequences of digits.  An archive is a sequence of cells, one per    *)
(* byte position: header cells carry the fields of the header block they   *)
(* start, byte cells carry one content or NUL byte.                        *)
(***************************************************************************)
EXTENDS Integers, Sequences, FiniteSets, TLC

\* ------------------------------------------------------------------ bounds
\* settings.THREADS (8 in the source), scaled down
THREADS == 2
\* settings.SPOOLED_FILE_SIZE (10 MiB in the source), scaled down
SPOOLED_FILE_SIZE == 2
\* tarfile.BLOCKSIZE (512), scaled down
BLOCKSIZE == 2
\* tarfile.LENGTH_NAME (100): longest name a plain header holds, scaled down
LENGTH_NAME == 1
\* most objects listed under the source prefix
MaxObjects == 3
\* largest object body
MaxSize == 2
\* most fetches that fail or come back truncated in one build
MaxFaults == 1
\* the batch size delete_files passes to chunks (1000 in the source), scaled down
DELETE_BATCH == 2
\* most rows of a manifest handed to delete_files
MaxRows == 3
\* longest file an OffsetSizeFile or a TeeFile is opened on
MaxSource == 4
\* largest size a read call asks for
MaxRequest == 2
\* most read calls made on one wrapped file
MaxReads == 3

Bucket == "source"
StripPrefixes == { <<>>, <<1>>, <<2>> }

Min(a, b) == IF a < b THEN a ELSE b

\* ------------------------------------------------------- string conversions
RECURSIVE py_str(_)
\* str(n) for n >= 0: the decimal digits, most significant first
py_str(n) == IF n < 10 THEN <<n>> ELSE py_str(n \div 10) \o <<n % 10>>

RECURSIVE py_int(_)
\* int(s) for a string of decimal digits
py_int(s) ==
    IF Len(s) = 0 THEN 0
    ELSE 10 * py_int(SubSeq(s, 1, Len(s) - 1)) + s[Len(s)]

\* s.startswith(p)
startswith(s, p) == Len(p) <= Len(s) /\ SubSeq(s, 1, Len(p)) = p

\* s[n:]
SliceFrom(s, n) == IF n >= Len(s) THEN <<>> ELSE SubSeq(s, n + 1, Len(s))

\* s[:n]
SliceTo(s, n) == SubSeq(s, 1, Min(n, Len(s)))

RECURSIVE StrLess(_, _)
\* a < b for strings: code point by code point, a proper prefix is smaller
StrLess(a, b) ==
    IF Len(b) = 0 THEN FALSE
    ELSE IF Len(a) = 0 THEN TRUE
    ELSE IF a[1] # b[1] THEN a[1] < b[1]
    ELSE StrLess(Tail(a), Tail(b))

\* ------------------------------------------------------------------ hashing
\* hashlib.new('md5'): the empty digest state
md5_new == 0

RECURSIVE md5_update(_, _)
\* sig.update(bytes): a collision-free digest of the byte sequence fed so far
md5_update(sig, bytes) ==
    IF Len(bytes) = 0 THEN sig
    ELSE md5_update(sig * 4 + bytes[1] + 1, Tail(bytes))

\* sig.hexdigest(): the digest as a string
hexdigest(sig) == py_str(sig)

\* HashingFile(source): hash and length of the data read so far
HashingFile(source) == [source |-> source, pos |-> 0, sig |-> md5_new, length |-> 0]

\* HashingFile.read(n): [file |-> the wrapper after the read, out |-> bytes]
HashingFile_read(hf, n) ==
    LET result == SubSeq(hf.source, hf.pos + 1, Min(hf.pos + n, Len(hf.source)))
    IN  [file |-> [hf EXCEPT !.pos = hf.pos + Len(result),
                             !.sig = md5_update(hf.sig, result),
                             !.length = hf.length + Len(result)],
         out |-> result]

\* ------------------------------------------------------------- tar encoding
Cell(t, name, size, b) == [t |-> t, name |-> name, size |-> size, b |-> b]
ByteCell(b) == Cell("B", <<>>, 0, b)
NUL == ByteCell(0)
Bytes(cells) == [i \in 1..Len(cells) |-> cells[i].b]
Fill(c, n) == [i \in 1..n |-> c]

\* number of BLOCKSIZE blocks holding size bytes: divmod(size, BLOCKSIZE)
Blocks(size) == (size + BLOCKSIZE - 1) \div BLOCKSIZE

\* TarInfo.tobuf(): one header block, preceded by an extended header block
\* and its data block when the name does not fit the name field
tobuf(name, size) ==
    LET hdr == <<Cell("H", SliceTo(name, LENGTH_NAME), size, 0)>>
                   \o Fill(Cell("h", <<>>, 0, 0), BLOCKSIZE - 1)
        ext == <<Cell("X", name, 0, 0)>>
                   \o Fill(Cell("h", <<>>, 0, 0), 2 * BLOCKSIZE - 1)
    IN  IF Len(name) <= LENGTH_NAME THEN hdr ELSE ext \o hdr

\* TarFile.addfile(tarinfo, fileobj) on an archive [cells, offset]: writes the
\* header, copies tarinfo.size bytes from fileobj, pads to a full block
TarFile_addfile(tar, name, size, fileobj) ==
    LET buf  == tobuf(name, size)
        rd   == IF size = 0 THEN [file |-> fileobj, out |-> <<>>]
                ELSE HashingFile_read(fileobj, size)
        data == [i \in 1..Len(rd.out) |-> ByteCell(rd.out[i])]
        pad  == Fill(NUL, Blocks(size) * BLOCKSIZE - size)
    IN  IF Len(rd.out) < size
        THEN [raised |-> TRUE, fileobj |-> rd.file,
              cells |-> tar.cells \o buf, offset |-> tar.offset + Len(buf)]
        ELSE [raised |-> FALSE, fileobj |-> rd.file,
              cells |-> tar.cells \o buf \o data \o pad,
              offset |-> tar.offset + Len(buf) + Blocks(size) * BLOCKSIZE]

\* faulty variant: offset_data assumes every header is one block long
LoggingTarFile_addfile_oneblock(tar, name, size, fileobj) ==
    LET w == TarFile_addfile(tar, name, size, fileobj)
    IN  [raised |-> w.raised, fileobj |-> w.fileobj,
         cells |-> w.cells, offset |-> w.offset,
         member |-> [name |-> name, size |-> size,
                     offset |-> tar.offset,
                     offset_data |-> tar.offset + BLOCKSIZE]]

\* faulty variant: the member keeps the offset a new TarInfo has
LoggingTarFile_addfile_nooffset(tar, name, size, fileobj) ==
    LET buf == tobuf(name, size)
        w   == TarFile_addfile(tar, name, size, fileobj)
    IN  [raised |-> w.raised, fileobj |-> w.fileobj,
         cells |-> w.cells, offset |-> w.offset,
         member |-> [name |-> name, size |-> size,
                     offset |-> 0,
                     offset_data |-> Len(buf)]]

\* LoggingTarFile.addfile: records offset and offset_data on the member
LoggingTarFile_addfile(tar, name, size, fileobj) ==
    LET buf == tobuf(name, size)
        w   == TarFile_addfile(tar, name, size, fileobj)
    IN  [raised |-> w.raised, fileobj |-> w.fileobj,
         cells |-> w.cells, offset |-> w.offset,
         member |-> [name |-> name, size |-> size,
                     offset |-> tar.offset,
                     offset_data |-> tar.offset + Len(buf)]]

\* TarFile.close(): two zero blocks end the archive
TarFile_close(cells) == cells \o Fill(NUL, 2 * BLOCKSIZE)

\* -------------------------------------------------------------------- state
VARIABLES
    store,          \* the objects list_objects yields, in listing order
    strip_prefix,   \* write_tar's strip_prefix argument
    items_next,     \* threaded_queue: how many items next(items) has taken
    futures,        \* threaded_queue: the futures set (job numbers)
    job,            \* per job: executor state and what load_object returned
    gen_pc,         \* threaded_queue: where the generator stands
    cur,            \* threaded_queue: the future whose result was yielded last
    submitted,      \* per job: how often executor.submit was called for it
    yielded,        \* per job: how often its result was yielded
    faults,         \* fetches that failed or came back short so far
    tar_file,       \* the bytes at tar_path, as cells
    tar_offset,     \* TarFile.offset of the open archive
    files_written,  \* write_tar's files_written list
    wt_pc,          \* write_tar: where it stands
    wt_error,       \* the exception write_tar raised
    manifest,       \* the file at manifest_path
    tampered,       \* whether manifest or archive were rewritten after the build
    rewrite,        \* what was rewritten after the build: which row, which byte
    validated,      \* the last validate_tar call: its strip_prefix and outcome
    extracted,      \* the last open_archived_file call: its key and what it read
    dry_run,        \* delete_files: its dry_run argument
    buckets,        \* delete_files: the dictionary of results by bucket
    dl_pc,          \* delete_files: where it stands
    dl_pending,     \* delete_files: the delete batches not yet sent
    dl_calls,       \* the delete_objects calls the store has received
    objects,        \* the (bucket, key) pairs the store holds
    source_pos,     \* position of the file an OffsetSizeFile or a TeeFile wraps
    osf,            \* an OffsetSizeFile over the file at tar_path
    osf_out,        \* every byte the OffsetSizeFile has returned, in order
    osf_last,       \* its last read: was the window exhausted, what came back
    reads,          \* read calls made on the wrapper(s) so far
    requested_negative, \* whether a TeeFile read was asked for a negative size
    tee_buffers,    \* TeeFile.tee's two lists b1, b2 of buffered chunks
    tee_pos,        \* self.pos of the two TeeFile halves
    tee_out,        \* every byte each half has returned, in order
    args,           \* the arguments main() parsed for the command run
    cmd_pc,         \* where the command stands
    answers         \* what was typed at do_delete's prompts, in order

vars == <<store, strip_prefix, items_next, futures, job, gen_pc, cur, submitted,
          yielded, faults, tar_file, tar_offset, files_written, wt_pc, wt_error,
          manifest, tampered, rewrite, validated, extracted,
          dry_run, buckets, dl_pc, dl_pending, dl_calls, objects,
          source_pos, osf, osf_out, osf_last, reads, requested_negative,
          tee_buffers, tee_pos, tee_out, args, cmd_pc, answers>>

queue_vars == <<items_next, futures, job, gen_pc, cur, submitted, yielded, faults>>
tar_vars == <<tar_file, tar_offset, files_written>>
post_vars == <<tampered, rewrite, validated, extracted>>
delete_vars == <<dry_run, buckets, dl_pc, dl_pending, dl_calls, objects>>
file_vars == <<source_pos, osf, osf_out, osf_last, reads, requested_negative,
               tee_buffers, tee_pos, tee_out>>
cmd_vars == <<args, cmd_pc, answers>>
aux_vars == <<delete_vars, file_vars, cmd_vars>>

\* ---------------------------------------------------------------- the store
\* keys in listing (ascending) order: two under directory 1, the rest under 2
KeyOf(i) == << (IF i <= 2 THEN 1 ELSE 2), i >>
BodyOf(i, size) == [k \in 1..size |-> (i + k) % 3]
Jobs == 1..Len(store)

NoError == [kind |-> "none", key |-> <<>>]
Error(kind, key) == [kind |-> kind, key |-> key]
\* what validate_tar ends with: Ok, or the ValueError / ReadError it raises
VError(kind, name, keys) == [kind |-> kind, name |-> name, keys |-> keys]
Ok == VError("ok", <<>>, <<>>)
NotValidated == [called |-> FALSE, strip_prefix |-> <<>>, result |-> Ok]
NotExtracted == [called |-> FALSE, key |-> <<>>, found |-> FALSE, data |-> <<>>]
NoFile == [exists |-> FALSE, header |-> <<>>, rows |-> <<>>]
NoRewrite == [kind |-> "none", key |-> <<>>, pos |-> 0]
NoWindow == [offset |-> 0, size |-> 0, pos |-> 0]
NoRead == [called |-> FALSE, exhausted |-> FALSE, out |-> <<>>]

\* delete_files has not been called
DeleteIdle ==
    /\ dry_run = TRUE
    /\ buckets = <<>>
    /\ dl_pc = "init"
    /\ dl_pending = <<>>
    /\ dl_calls = <<>>
    /\ objects = {}

\* no command is run
NoArgs ==
    [command |-> "none", validate |-> FALSE, delete |-> FALSE, force |-> FALSE,
     tar_path |-> FALSE]

CmdIdle ==
    /\ args = NoArgs
    /\ cmd_pc = "idle"
    /\ answers = <<>>

\* no OffsetSizeFile and no TeeFile has been read
FilesIdle ==
    /\ source_pos = 0
    /\ osf = NoWindow
    /\ osf_out = <<>>
    /\ osf_last = NoRead
    /\ reads = 0
    /\ requested_negative = FALSE
    /\ tee_buffers = <<<<>>, <<>>>>
    /\ tee_pos = <<0, 0>>
    /\ tee_out = <<<<>>, <<>>>>

Init ==
    /\ \E n \in 0..MaxObjects, shift \in 0..MaxSize :
          store = [i \in 1..n |->
                      [Key |-> KeyOf(i),
                       Body |-> BodyOf(i, (i + shift) % (MaxSize + 1))]]
    /\ strip_prefix \in StripPrefixes
    /\ items_next = 0
    /\ futures = {}
    /\ job = [j \in 1..Len(store) |-> [st |-> "new", ContentLength |-> 0, Body |-> <<>>]]
    /\ gen_pc = "init"
    /\ cur = 0
    /\ submitted = [j \in 1..Len(store) |-> 0]
    /\ yielded = [j \in 1..Len(store) |-> 0]
    /\ faults = 0
    /\ tar_file = <<>>
    /\ tar_offset = 0
    /\ files_written = <<>>
    /\ wt_pc = "init"
    /\ wt_error = NoError
    /\ manifest = NoFile
    /\ tampered = FALSE
    /\ rewrite = NoRewrite
    /\ validated = NotValidated
    /\ extracted = NotExtracted
    /\ DeleteIdle
    /\ FilesIdle
    /\ CmdIdle

\* ----------------------------------------------------------- threaded_queue
\* the generator's mutable state, as queue_item reads and writes it
Queue == [items_next |-> items_next, futures |-> futures, job |-> job,
          submitted |-> submitted]

\* item = next(items); futures.add(executor.submit(func, *item)), or nothing
\* when next(items) raises StopIteration
submit_next(q) ==
    IF q.items_next >= Len(store) THEN q
    ELSE LET j == q.items_next + 1
         IN  [items_next |-> j,
              futures |-> q.futures \cup {j},
              job |-> [q.job EXCEPT ![j].st = "running"],
              submitted |-> [q.submitted EXCEPT ![j] = @ + 1]]

\* faulty variant: queue_item submits two items per freed slot
queue_item_twice(q) == submit_next(submit_next(q))

\* queue_item(): submit the next item of the source, if there is one
queue_item(q) == submit_next(q)

RECURSIVE queue_items(_, _)
\* for i in range(n): queue_item()
queue_items(q, n) == IF n = 0 THEN q ELSE queue_items(queue_item(q), n - 1)

\* faulty variant: the freed slot is not refilled
Resume_norefill(q) ==
    LET r == [q EXCEPT !.futures = q.futures \ {cur}]
    IN  [q |-> r, pc |-> IF r.futures = {} THEN "done" ELSE "waiting"]

\* the generator after `futures.remove(future); queue_item()`: it waits for
\* the next future, or falls out of `while futures` and ends
Resume(q) ==
    LET r == queue_item([q EXCEPT !.futures = q.futures \ {cur}])
    IN  [q |-> r, pc |-> IF r.futures = {} THEN "done" ELSE "waiting"]

\* a worker thread finishes load_object for job j
JobFinish(j) ==
    /\ j \in Jobs
    /\ job[j].st = "running"
    /\ \/ /\ job' = [job EXCEPT ![j] = [st |-> "ok",
                                        ContentLength |-> Len(store[j].Body),
                                        Body |-> store[j].Body]]
          /\ UNCHANGED faults
       \/ /\ faults < MaxFaults
          /\ Len(store[j].Body) > 0
          /\ job' = [job EXCEPT ![j] = [st |-> "ok",
                                        ContentLength |-> Len(store[j].Body),
                                        Body |-> SliceTo(store[j].Body, Len(store[j].Body) - 1)]]
          /\ faults' = faults + 1
       \/ /\ faults < MaxFaults
          /\ job' = [job EXCEPT ![j].st = "err"]
          /\ faults' = faults + 1
    /\ UNCHANGED <<store, strip_prefix, items_next, futures, gen_pc, cur, submitted,
                   yielded, tar_vars, wt_pc, wt_error, manifest, post_vars>>
    /\ UNCHANGED aux_vars

\* faulty variant: a failed job's exception is swallowed and yielded as a result
future_result_swallow(f) == [raised |-> FALSE]

\* future.result(): the job's return value, or its exception raised
future_result(f) == [raised |-> job[f].st = "err"]

\* wait(futures, FIRST_COMPLETED)[0].pop(); yield future.result()
GenYield(f) ==
    /\ gen_pc = "waiting"
    /\ f \in futures
    /\ job[f].st \in {"ok", "err"}
    /\ cur' = f
    /\ IF ~future_result(f).raised
       THEN /\ gen_pc' = "yielded"
            /\ yielded' = [yielded EXCEPT ![f] = @ + 1]
       ELSE /\ gen_pc' = "shutdown"
            /\ UNCHANGED yielded
    /\ UNCHANGED <<store, strip_prefix, items_next, futures, job, submitted, faults,
                   tar_vars, wt_pc, wt_error, manifest, post_vars>>
    /\ UNCHANGED aux_vars

\* future.result() raised: the executor's `with` block waits for the jobs
\* still running, then the exception reaches the consumer's for loop
GenRaise ==
    /\ gen_pc = "shutdown"
    /\ \A j \in Jobs : job[j].st # "running"
    /\ gen_pc' = "raised"
    /\ wt_pc' = "failed"
    /\ wt_error' = Error("JobError", store[cur].Key)
    /\ UNCHANGED <<store, strip_prefix, items_next, futures, job, cur, submitted,
                   yielded, faults, tar_vars, manifest, post_vars>>
    /\ UNCHANGED aux_vars

\* ---------------------------------------------------------------- write_tar
\* write_tar is called: the archive is opened and the for loop's first
\* next(items) starts the generator, which submits the first THREADS items
WriteTarStart ==
    /\ wt_pc = "init"
    /\ LET q == queue_items(Queue, THREADS)
       IN  /\ items_next' = q.items_next
           /\ futures' = q.futures
           /\ job' = q.job
           /\ submitted' = q.submitted
           /\ gen_pc' = IF q.futures = {} THEN "done" ELSE "waiting"
    /\ wt_pc' = "loop"
    /\ UNCHANGED <<store, strip_prefix, cur, yielded, faults, tar_vars, wt_error,
                   manifest, post_vars>>
    /\ UNCHANGED aux_vars

\* the in-archive name write_tar gives an object
TarName(key, prefix) ==
    IF prefix # <<>> /\ startswith(key, prefix)
    THEN SliceFrom(key, Len(prefix))
    ELSE key

\* the OrderedDict write_tar appends to files_written
ManifestRecord(key, response, body, member) ==
    [Bucket |-> Bucket,
     Key |-> key,
     Size |-> response.ContentLength,
     ETag |-> hexdigest(md5_update(md5_new, store[cur].Body)),
     TarMD5 |-> hexdigest(body.sig),
     TarOffset |-> member.offset,
     TarDataOffset |-> member.offset_data,
     TarSize |-> member.size]

\* one pass of write_tar's for loop over the yielded (obj, response, body),
\* then the loop's next(items), which resumes the generator
LoopBody ==
    /\ wt_pc = "loop"
    /\ gen_pc = "yielded"
    /\ LET key == store[cur].Key
           response == job[cur]
           a == LoggingTarFile_addfile([cells |-> tar_file, offset |-> tar_offset],
                                       TarName(key, strip_prefix),
                                       response.ContentLength,
                                       HashingFile(job[cur].Body))
           r == Resume(Queue)
       IN  /\ tar_file' = a.cells
           /\ tar_offset' = a.offset
           /\ IF a.raised
              THEN /\ wt_pc' = "failed"
                   /\ wt_error' = Error("OSError", <<>>)
                   /\ gen_pc' = "closed"
                   /\ UNCHANGED <<files_written, items_next, futures, job, submitted>>
              ELSE /\ files_written' = Append(files_written,
                            ManifestRecord(key, response, a.fileobj, a.member))
                   /\ IF response.ContentLength # a.member.size
                      THEN /\ wt_pc' = "failed"
                           /\ wt_error' = Error("SizeMismatch", key)
                           /\ gen_pc' = "closed"
                           /\ UNCHANGED <<items_next, futures, job, submitted>>
                      ELSE /\ items_next' = r.q.items_next
                           /\ futures' = r.q.futures
                           /\ job' = r.q.job
                           /\ submitted' = r.q.submitted
                           /\ gen_pc' = r.pc
                           /\ UNCHANGED <<wt_pc, wt_error>>
    /\ UNCHANGED <<store, strip_prefix, cur, yielded, faults, manifest, post_vars>>
    /\ UNCHANGED aux_vars

\* the for loop ended: the `with` block closes the archive
CloseTar ==
    /\ wt_pc = "loop"
    /\ gen_pc = "done"
    /\ tar_file' = TarFile_close(tar_file)
    /\ wt_pc' = "closed"
    /\ UNCHANGED <<store, strip_prefix, queue_vars, tar_offset, files_written,
                   wt_error, manifest, post_vars>>
    /\ UNCHANGED aux_vars

\* the two sort keys of the program: files_written.sort(key=f['Key']) and
\* sorted(rows, key=int(r['TarOffset']))
SortLess(a, b, by) ==
    IF by = "Key" THEN StrLess(a.Key, b.Key)
    ELSE py_int(a.TarOffset) < py_int(b.TarOffset)

\* where s[i] lands in a stable sort: behind every element below it and
\* behind the equal ones that come before it
SortRank(s, i, by) ==
    Cardinality({j \in 1..Len(s) :
        SortLess(s[j], s[i], by) \/ (~SortLess(s[i], s[j], by) /\ j <= i)})

\* faulty variant: the list is left in the order it was built in
Sorted_asis(s, by) == s

\* sorted(s, key=...) and list.sort(key=...): stable
Sorted(s, by) ==
    [k \in 1..Len(s) |-> s[CHOOSE i \in 1..Len(s) : SortRank(s, i, by) = k]]

\* csv.DictWriter turns every value into its string
CsvRow(r) ==
    [r EXCEPT !.Size = py_str(r.Size),
              !.TarOffset = py_str(r.TarOffset),
              !.TarDataOffset = py_str(r.TarDataOffset),
              !.TarSize = py_str(r.TarSize)]

FieldNames == <<"Bucket", "Key", "Size", "ETag", "TarMD5", "TarOffset",
                "TarDataOffset", "TarSize">>

\* write_dicts_to_csv(manifest_path, rows): the file it leaves
write_dicts_to_csv(rows) ==
    IF Len(rows) = 0
    THEN [raised |-> TRUE, file |-> [exists |-> TRUE, header |-> <<>>, rows |-> <<>>]]
    ELSE [raised |-> FALSE,
          file |-> [exists |-> TRUE, header |-> FieldNames,
                    rows |-> [i \in 1..Len(rows) |-> CsvRow(rows[i])]]]

\* faulty variant: the manifest is written although write_tar has raised
WriteCsv_onfailure ==
    /\ wt_pc \in {"closed", "failed"}
    /\ ~manifest.exists
    /\ LET w == write_dicts_to_csv(Sorted(files_written, "Key"))
       IN  /\ manifest' = w.file
           /\ files_written' = Sorted(files_written, "Key")
           /\ wt_pc' = IF wt_pc = "closed" /\ ~w.raised THEN "done" ELSE "failed"
           /\ wt_error' = IF wt_pc = "closed" /\ w.raised
                          THEN Error("IndexError", <<>>) ELSE wt_error
    /\ UNCHANGED <<store, strip_prefix, queue_vars, tar_file, tar_offset, post_vars>>
    /\ UNCHANGED aux_vars

\* files_written.sort(key=Key); write_dicts_to_csv(manifest_path, files_written)
WriteCsv ==
    /\ wt_pc = "closed"
    /\ LET w == write_dicts_to_csv(Sorted(files_written, "Key"))
       IN  /\ manifest' = w.file
           /\ files_written' = Sorted(files_written, "Key")
           /\ IF w.raised
              THEN wt_pc' = "failed" /\ wt_error' = Error("IndexError", <<>>)
              ELSE wt_pc' = "done" /\ UNCHANGED wt_error
    /\ UNCHANGED <<store, strip_prefix, queue_vars, tar_file, tar_offset, post_vars>>
    /\ UNCHANGED aux_vars

\* ------------------------------------------------------------- validate_tar
\* whether the block at off is all NUL bytes
ZeroBlock(cells, off) ==
    \A i \in (off + 1)..(off + BLOCKSIZE) : cells[i].t = "B" /\ cells[i].b = 0

TarMember(name, size, offset, offset_data) ==
    [kind |-> "member", name |-> name, size |-> size,
     offset |-> offset, offset_data |-> offset_data]
TarEnd(kind) == [kind |-> kind, name |-> <<>>, size |-> 0, offset |-> 0, offset_data |-> 0]

\* TarFile.next() of the stream reader at offset off: the member whose header
\* starts there, the end of the archive, or a ReadError
TarNext(cells, off) ==
    IF off + BLOCKSIZE > Len(cells)
    THEN TarEnd(IF off = 0 THEN "error" ELSE "eof")
    ELSE IF ZeroBlock(cells, off) THEN TarEnd("eof")
    ELSE IF cells[off + 1].t = "H"
    THEN TarMember(cells[off + 1].name, cells[off + 1].size, off, off + BLOCKSIZE)
    ELSE IF cells[off + 1].t = "X"
    THEN IF off + 3 * BLOCKSIZE <= Len(cells) /\ cells[off + 2 * BLOCKSIZE + 1].t = "H"
         THEN TarMember(cells[off + 1].name, cells[off + 2 * BLOCKSIZE + 1].size,
                        off, off + 3 * BLOCKSIZE)
         ELSE TarEnd("error")
    ELSE TarEnd(IF off = 0 THEN "error" ELSE "eof")

\* file.read(n) at position pos of a plain byte stream, n >= 0
StreamRead(cells, pos, n) ==
    SubSeq(cells, pos + 1, Min(pos + n, Len(cells)))

\* file.read(n) of a binary file at position pos: a negative n reads to the end
file_read(cells, pos, n) ==
    IF n < 0 THEN SubSeq(cells, pos + 1, Len(cells)) ELSE StreamRead(cells, pos, n)

\* TeeFile.read(n) on the raw lane, n >= 0: the next n bytes of the archive
\* after the lane's position, whichever lane read them from the source first
TeeFile_read(cells, pos, n) ==
    LET out == IF n <= 0 THEN <<>> ELSE StreamRead(cells, pos, n)
    IN  [out |-> out, pos |-> pos + Len(out)]

RECURSIVE CompareChunks(_, _, _, _, _)
\* the `while size > 0` loop of validate_tar: tpos is the parsed lane's
\* position in the member's data, rpos the raw lane's position
CompareChunks(cells, tpos, rpos, size, sig) ==
    IF size <= 0 THEN [mismatch |-> FALSE, sig |-> sig, rpos |-> rpos]
    ELSE LET read_len == Min(size, SPOOLED_FILE_SIZE)
             chunk1 == StreamRead(cells, tpos, read_len)
             r == TeeFile_read(cells, rpos, read_len)
         IN  IF chunk1 # r.out
             THEN [mismatch |-> TRUE, sig |-> sig, rpos |-> r.pos]
             ELSE CompareChunks(cells, tpos + Len(chunk1), r.pos, size - read_len,
                                md5_update(sig, Bytes(chunk1)))

\* faulty variant: the recorded hash is not compared
HashMatches_unchecked(sig, csv_entry) == TRUE

\* checksum.hexdigest() == csv_entry['TarMD5']
HashMatches(sig, csv_entry) == hexdigest(sig) = csv_entry.TarMD5

\* faulty variant: the size is compared before the name
EntryError_sizefirst(tarinfo, csv_entry, c, prefix) ==
    IF tarinfo.size # py_int(csv_entry.TarSize)
    THEN VError("SizeMismatch", tarinfo.name, <<>>)
    ELSE IF tarinfo.name # SliceFrom(csv_entry.Key, Len(prefix))
    THEN VError("MismatchedKeys", tarinfo.name, <<>>)
    ELSE IF tarinfo.offset # py_int(csv_entry.TarOffset)
    THEN VError("OffsetMismatch", tarinfo.name, <<>>)
    ELSE IF tarinfo.offset_data # py_int(csv_entry.TarDataOffset)
    THEN VError("DataOffsetMismatch", tarinfo.name, <<>>)
    ELSE IF c.mismatch
    THEN VError("ContentMismatch", tarinfo.name, <<>>)
    ELSE IF ~HashMatches(c.sig, csv_entry)
    THEN VError("HashMismatch", tarinfo.name, <<>>)
    ELSE Ok

\* the checks of one archive entry against its manifest record, in the order
\* of the loop body: the first that fails raises; c is the outcome of the
\* `while size > 0` loop, which runs only when the four before it passed
EntryError(tarinfo, csv_entry, c, prefix) ==
    IF tarinfo.name # SliceFrom(csv_entry.Key, Len(prefix))
    THEN VError("MismatchedKeys", tarinfo.name, <<>>)
    ELSE IF tarinfo.offset # py_int(csv_entry.TarOffset)
    THEN VError("OffsetMismatch", tarinfo.name, <<>>)
    ELSE IF tarinfo.offset_data # py_int(csv_entry.TarDataOffset)
    THEN VError("DataOffsetMismatch", tarinfo.name, <<>>)
    ELSE IF tarinfo.size # py_int(csv_entry.TarSize)
    THEN VError("SizeMismatch", tarinfo.name, <<>>)
    ELSE IF c.mismatch
    THEN VError("ContentMismatch", tarinfo.name, <<>>)
    ELSE IF ~HashMatches(c.sig, csv_entry)
    THEN VError("HashMismatch", tarinfo.name, <<>>)
    ELSE Ok

RECURSIVE ValidateFrom(_, _, _, _, _)
\* the `for tarinfo in tar` loop of validate_tar and the check after it
ValidateFrom(cells, off, csv_entries, raw_pos, prefix) ==
    LET tarinfo == TarNext(cells, off)
    IN  IF tarinfo.kind = "error" THEN VError("ReadError", <<>>, <<>>)
        ELSE IF tarinfo.kind = "eof"
        THEN IF Len(csv_entries) > 0
             THEN VError("ManifestNotFound", <<>>,
                         [i \in 1..Len(csv_entries) |-> csv_entries[i].Key])
             ELSE Ok
        ELSE IF Len(csv_entries) = 0 THEN VError("NotEnough", tarinfo.name, <<>>)
        ELSE
        LET csv_entry == Head(csv_entries)
            skip == TeeFile_read(cells, raw_pos, py_int(csv_entry.TarDataOffset) - raw_pos)
            c == CompareChunks(cells, tarinfo.offset_data, skip.pos, tarinfo.size, md5_new)
            e == EntryError(tarinfo, csv_entry, c, prefix)
        IN  IF e # Ok THEN e
            ELSE ValidateFrom(cells, tarinfo.offset_data + Blocks(tarinfo.size) * BLOCKSIZE,
                              Tail(csv_entries), c.rpos, prefix)

\* validate_tar(manifest_path, tar_path, strip_prefix)
validate_tar(rows, cells, prefix) ==
    LET csv_entries == Sorted(rows, "TarOffset")
    IN  IF Len(csv_entries) = 0 THEN VError("NoEntries", <<>>, <<>>)
        ELSE ValidateFrom(cells, 0, csv_entries,
                          TeeFile_read(cells, 0, py_int(csv_entries[1].TarOffset)).pos,
                          prefix)

\* validate_tar is called on the files write_tar left
Validate(prefix) ==
    /\ wt_pc \in {"done", "failed"}
    /\ manifest.exists
    /\ validated' = [called |-> TRUE, strip_prefix |-> prefix,
                     result |-> validate_tar(manifest.rows, tar_file, prefix)]
    /\ UNCHANGED <<store, strip_prefix, queue_vars, tar_vars, wt_pc, wt_error,
                   manifest, tampered, rewrite, extracted>>
    /\ UNCHANGED aux_vars

\* ------------------------------------------------- rewriting the two files
\* a file was rewritten: earlier outcomes no longer describe the files
Tampered(kind, key, pos) ==
    /\ tampered' = TRUE
    /\ rewrite' = [kind |-> kind, key |-> key, pos |-> pos]
    /\ validated' = NotValidated
    /\ extracted' = NotExtracted

\* the manifest is rewritten without its last row
DropLastRow ==
    /\ wt_pc = "done" /\ ~tampered
    /\ manifest' = [manifest EXCEPT !.rows = SubSeq(@, 1, Len(@) - 1)]
    /\ Tampered("drop", manifest.rows[Len(manifest.rows)].Key, 0)
    /\ UNCHANGED <<store, strip_prefix, queue_vars, tar_vars, wt_pc, wt_error>>
    /\ UNCHANGED aux_vars

\* the manifest is rewritten with its last row twice
DupLastRow ==
    /\ wt_pc = "done" /\ ~tampered
    /\ manifest' = [manifest EXCEPT !.rows = Append(@, @[Len(@)])]
    /\ Tampered("dup", manifest.rows[Len(manifest.rows)].Key, 0)
    /\ UNCHANGED <<store, strip_prefix, queue_vars, tar_vars, wt_pc, wt_error>>
    /\ UNCHANGED aux_vars

\* row i with one field changed: a wrong hash, a longer key, a number one up
Rewritten(row, field) ==
    IF field = "TarMD5" THEN [row EXCEPT !.TarMD5 = Append(@, 0)]
    ELSE IF field = "Key" THEN [row EXCEPT !.Key = Append(@, 7)]
    ELSE IF field = "TarOffset" THEN [row EXCEPT !.TarOffset = py_str(py_int(@) + 1)]
    ELSE IF field = "TarDataOffset" THEN [row EXCEPT !.TarDataOffset = py_str(py_int(@) + 1)]
    ELSE [row EXCEPT !.TarSize = py_str(py_int(@) + 1)]

\* the manifest is rewritten with one field of row i changed
RewriteRow(i, field) ==
    /\ wt_pc = "done" /\ ~tampered
    /\ i \in 1..Len(manifest.rows)
    /\ manifest' = [manifest EXCEPT !.rows[i] = Rewritten(@, field)]
    /\ Tampered(field, manifest.rows[i].Key, 0)
    /\ UNCHANGED <<store, strip_prefix, queue_vars, tar_vars, wt_pc, wt_error>>
    /\ UNCHANGED aux_vars

\* the archive is rewritten with the byte at position p changed
CorruptByte(p) ==
    /\ wt_pc = "done" /\ ~tampered
    /\ p \in 1..Len(tar_file)
    /\ tar_file[p].t = "B"
    /\ tar_file' = [tar_file EXCEPT ![p].b = (@ + 1) % 3]
    /\ Tampered("byte", <<>>, p)
    /\ UNCHANGED <<store, strip_prefix, queue_vars, tar_offset, files_written, wt_pc,
                   wt_error, manifest>>
    /\ UNCHANGED aux_vars

\* the archive is rewritten with stray bytes in front
PrependBytes ==
    /\ wt_pc = "done" /\ ~tampered
    /\ tar_file' = Fill(ByteCell(1), BLOCKSIZE) \o tar_file
    /\ Tampered("prepend", <<>>, 0)
    /\ UNCHANGED <<store, strip_prefix, queue_vars, tar_offset, files_written, wt_pc,
                   wt_error, manifest>>
    /\ UNCHANGED aux_vars

\* ------------------------------------------------------- open_archived_file
\* faulty variant: the source is not positioned at the offset
OffsetSizeFile_noseek(offset, size) == [offset |-> 0, size |-> size, pos |-> 0]

\* OffsetSizeFile(source, offset, size): source.seek(offset); pos = 0
OffsetSizeFile(offset, size) == [offset |-> offset, size |-> size, pos |-> 0]

\* OffsetSizeFile.read(): size = self.size - self.pos.  The source stands at
\* offset + pos: __init__ seeks to offset and every read moves both by len(out)
OffsetSizeFile_read(cells, f) ==
    LET out == file_read(cells, f.offset + f.pos, f.size - f.pos)
    IN  [file |-> [f EXCEPT !.pos = f.pos + Len(out)], out |-> out]

\* OffsetSizeFile.read(size): size = min(size, self.size - self.pos)
OffsetSizeFile_read_size(cells, f, size) ==
    LET out == file_read(cells, f.offset + f.pos, Min(size, f.size - f.pos))
    IN  [file |-> [f EXCEPT !.pos = f.pos + Len(out)], out |-> out]

\* the rows of the manifest for (bucket, key), in file order
Matching(rows, bucket, key) ==
    SelectSeq(rows, LAMBDA r : r.Bucket = bucket /\ r.Key = key)

\* open_archived_file(manifest_path, tar_path, 's3://bucket/key'), read to the end
open_archived_file(rows, cells, bucket, key) ==
    LET found == Matching(rows, bucket, key)
        f == OffsetSizeFile(py_int(found[1].TarDataOffset), py_int(found[1].TarSize))
        first == OffsetSizeFile_read(cells, f)
        second == OffsetSizeFile_read(cells, first.file)
    IN  IF Len(found) = 0
        THEN [called |-> TRUE, key |-> key, found |-> FALSE, data |-> <<>>]
        ELSE [called |-> TRUE, key |-> key, found |-> TRUE,
              data |-> Bytes(first.out \o second.out)]

\* a key no object has
MissingKey == <<9>>

\* open_archived_file is called on the files as write_tar left them
OpenArchivedFile(key) ==
    /\ wt_pc = "done" /\ ~tampered
    /\ extracted' = open_archived_file(manifest.rows, tar_file, Bucket, key)
    /\ UNCHANGED <<store, strip_prefix, queue_vars, tar_vars, wt_pc, wt_error,
                   manifest, tampered, rewrite, validated>>
    /\ UNCHANGED aux_vars

ManifestFields == {"TarMD5", "Key", "TarOffset", "TarDataOffset", "TarSize"}

Next ==
    \/ WriteTarStart
    \/ \E j \in Jobs : JobFinish(j)
    \/ \E f \in futures : GenYield(f)
    \/ GenRaise
    \/ LoopBody
    \/ CloseTar
    \/ WriteCsv
    \/ \E prefix \in StripPrefixes : Validate(prefix)
    \/ DropLastRow
    \/ DupLastRow
    \/ \E i \in 1..MaxObjects, field \in ManifestFields : RewriteRow(i, field)
    \/ \E p \in 1..Len(tar_file) : CorruptByte(p)
    \/ PrependBytes
    \/ \E key \in {store[i].Key : i \in Jobs} \cup {MissingKey} : OpenArchivedFile(key)

Spec == Init /\ [][Next]_vars

\* the build's own steps; fetch threads run to completion and the consumer's
\* loop keeps calling next(items), so a build step that stays possible is taken
Build ==
    \/ WriteTarStart
    \/ \E j \in Jobs : JobFinish(j)
    \/ \E f \in futures : GenYield(f)
    \/ GenRaise
    \/ LoopBody
    \/ CloseTar
    \/ WriteCsv

\* a build on its own, from the call of write_tar to its return or exception
FairSpec == Init /\ [][Build]_vars /\ WF_vars(Build)

\* ------------------------------------------------------------- delete_files
DeleteBuckets == {"source", "other"}
DeleteKeys == { <<1>>, <<2>> }

\* a manifest row as delete_files reads it: the ETag, and a TarMD5 that
\* equals it or not
DeleteRow(bucket, key, md5) ==
    [Bucket |-> bucket, Key |-> key, Size |-> <<0>>, ETag |-> <<1>>, TarMD5 |-> md5,
     TarOffset |-> <<0>>, TarDataOffset |-> <<0>>, TarSize |-> <<0>>]

DeleteRows ==
    {DeleteRow(b, k, m) : b \in DeleteBuckets, k \in DeleteKeys, m \in { <<1>>, <<2>> }}

\* the store before delete_files: every object a row lists, and one more
InitialObjects(rows) ==
    {[Bucket |-> rows[i].Bucket, Key |-> rows[i].Key] : i \in 1..Len(rows)}
        \cup {[Bucket |-> "source", Key |-> <<7>>]}

\* the state in which write_tar has not been called
BuildIdle ==
    /\ store = <<>>
    /\ strip_prefix = <<>>
    /\ items_next = 0
    /\ futures = {}
    /\ job = <<>>
    /\ gen_pc = "init"
    /\ cur = 0
    /\ submitted = <<>>
    /\ yielded = <<>>
    /\ faults = 0
    /\ tar_offset = 0
    /\ files_written = <<>>
    /\ wt_pc = "init"
    /\ wt_error = NoError
    /\ tampered = FALSE
    /\ rewrite = NoRewrite
    /\ validated = NotValidated
    /\ extracted = NotExtracted

\* delete_files is about to be called on a manifest
DeleteInit ==
    /\ BuildIdle
    /\ FilesIdle
    /\ CmdIdle
    /\ tar_file = <<>>
    /\ \E n \in 0..MaxRows : \E rows \in [1..n -> DeleteRows] :
          /\ manifest = [exists |-> TRUE, header |-> FieldNames, rows |-> rows]
          /\ objects = InitialObjects(rows)
    /\ dry_run \in BOOLEAN
    /\ buckets = <<>>
    /\ dl_pc = "init"
    /\ dl_pending = <<>>
    /\ dl_calls = <<>>

\* the value the defaultdict makes for a bucket first mentioned
NewBucket(b) ==
    [bucket |-> b, keys |-> <<>>, deleted |-> <<>>, errors |-> <<>>, mismatched |-> <<>>]

\* where bucket b stands in the dictionary, 0 when it has no entry
BucketIndex(d, b) ==
    IF \E i \in 1..Len(d) : d[i].bucket = b
    THEN CHOOSE i \in 1..Len(d) : d[i].bucket = b
    ELSE 0

\* buckets[b]: a bucket first mentioned is entered at the end
Touch(d, b) == IF BucketIndex(d, b) = 0 THEN Append(d, NewBucket(b)) ELSE d

\* faulty variant: the hashes are not compared
Eligible_any(entry) == TRUE

\* not (entry['ETag'] != entry['TarMD5'])
Eligible(entry) == entry.ETag = entry.TarMD5

RECURSIVE Partition(_, _)
\* the loop over read_dicts_from_csv(manifest_path)
Partition(d, rows) ==
    IF Len(rows) = 0 THEN d
    ELSE LET entry == Head(rows)
             t == Touch(d, entry.Bucket)
             i == BucketIndex(t, entry.Bucket)
         IN  Partition(IF ~Eligible(entry)
                       THEN [t EXCEPT ![i].mismatched = Append(@, entry.Key)]
                       ELSE [t EXCEPT ![i].keys = Append(@, entry.Key)],
                       Tail(rows))

\* faulty variant: everything is yielded as one chunk
chunks_whole(iterable, size) == IF Len(iterable) = 0 THEN <<>> ELSE <<iterable>>

RECURSIVE chunks(_, _)
\* chunks(iterable, size): tuples of size items, the last one shorter
chunks(iterable, size) ==
    IF Len(iterable) = 0 THEN <<>>
    ELSE <<SliceTo(iterable, size)>> \o chunks(SliceFrom(iterable, size), size)

RECURSIVE Batches(_, _)
\* for bucket, keys in buckets.items(): for delete_batch in chunks(keys['keys'], 1000)
Batches(d, i) ==
    IF i > Len(d) THEN <<>>
    ELSE LET c == chunks(d[i].keys, DELETE_BATCH)
         IN  [k \in 1..Len(c) |-> [bucket |-> d[i].bucket, keys |-> c[k]]]
                 \o Batches(d, i + 1)

\* faulty variant: the dry run is not honoured
ShouldDelete_always(dry) == TRUE

\* if not dry_run
ShouldDelete(dry) == ~dry

\* the items of s at the positions in P, in order
Pick(s, P) ==
    LET idx == SelectSeq([k \in 1..Len(s) |-> k], LAMBDA k : k \in P)
    IN  [j \in 1..Len(idx) |-> s[idx[j]]]

\* delete_files is called: the manifest is read and partitioned; a dry run
\* returns, otherwise the batches to delete are lined up
DeleteFiles ==
    /\ dl_pc = "init"
    /\ manifest.exists
    /\ LET d == Partition(<<>>, manifest.rows)
           pending == IF ShouldDelete(dry_run) THEN Batches(d, 1) ELSE <<>>
       IN  /\ buckets' = d
           /\ dl_pending' = pending
           /\ dl_pc' = IF Len(pending) = 0 THEN "done" ELSE "deleting"
    /\ UNCHANGED <<store, strip_prefix, queue_vars, tar_vars, wt_pc, wt_error,
                   manifest, post_vars, dry_run, dl_calls, objects, file_vars, cmd_vars>>

\* one delete_objects call: the store deletes the keys at the positions in ok
\* and reports the others as errors; the results are added to the bucket's
DeleteObjects(ok) ==
    /\ dl_pc = "deleting"
    /\ LET batch == Head(dl_pending)
           i == BucketIndex(buckets, batch.bucket)
           Deleted == Pick(batch.keys, ok)
           Errors == Pick(batch.keys, (1..Len(batch.keys)) \ ok)
       IN  /\ ok \subseteq 1..Len(batch.keys)
           /\ dl_calls' = Append(dl_calls, [bucket |-> batch.bucket, keys |-> batch.keys,
                                            Deleted |-> Deleted, Errors |-> Errors])
           /\ objects' = objects \ {[Bucket |-> batch.bucket, Key |-> batch.keys[k]] : k \in ok}
           /\ buckets' = [buckets EXCEPT ![i].deleted = @ \o Deleted,
                                         ![i].errors = @ \o Errors]
    /\ dl_pending' = Tail(dl_pending)
    /\ dl_pc' = IF Len(dl_pending) = 1 THEN "done" ELSE "deleting"
    /\ UNCHANGED <<store, strip_prefix, queue_vars, tar_vars, wt_pc, wt_error,
                   manifest, post_vars, dry_run, file_vars, cmd_vars>>

DeleteNext ==
    \/ DeleteFiles
    \/ \E ok \in SUBSET (1..DELETE_BATCH) : DeleteObjects(ok)

\* delete_files called on a manifest, dry run or not
DeleteSpec == DeleteInit /\ [][DeleteNext]_vars

\* ----------------------------------------------- OffsetSizeFile on its own
\* a file of n bytes, every byte telling its position
SourceFile(n) == [i \in 1..n |-> ByteCell(i)]

\* OffsetSizeFile(source, offset, size) was just made on a file
OsfInit ==
    /\ BuildIdle
    /\ DeleteIdle
    /\ CmdIdle
    /\ manifest = NoFile
    /\ \E n \in 0..MaxSource, offset \in 0..MaxSource, size \in 0..MaxSource :
          /\ tar_file = SourceFile(n)
          /\ osf = OffsetSizeFile(offset, size)
          /\ source_pos = offset
    /\ osf_out = <<>>
    /\ osf_last = NoRead
    /\ reads = 0
    /\ requested_negative = FALSE
    /\ tee_buffers = <<<<>>, <<>>>>
    /\ tee_pos = <<0, 0>>
    /\ tee_out = <<<<>>, <<>>>>

\* what a read call leaves behind
OsfAfter(r) ==
    /\ osf' = r.file
    /\ source_pos' = source_pos + Len(r.out)
    /\ osf_out' = osf_out \o Bytes(r.out)
    /\ osf_last' = [called |-> TRUE, exhausted |-> osf.pos >= osf.size,
                    out |-> Bytes(r.out)]
    /\ reads' = reads + 1
    /\ UNCHANGED <<store, strip_prefix, queue_vars, tar_vars, wt_pc, wt_error,
                   manifest, post_vars, delete_vars, requested_negative,
                   tee_buffers, tee_pos, tee_out, cmd_vars>>

\* wrapped.read(size)
OsfRead(size) ==
    /\ reads < MaxReads
    /\ OsfAfter(OffsetSizeFile_read_size(tar_file, osf, size))

\* wrapped.read()
OsfReadAll ==
    /\ reads < MaxReads
    /\ OsfAfter(OffsetSizeFile_read(tar_file, osf))

OsfNext ==
    \/ \E size \in (-1)..MaxRequest : OsfRead(size)
    \/ OsfReadAll

\* an OffsetSizeFile read by one caller
OsfSpec == OsfInit /\ [][OsfNext]_vars

\* ------------------------------------------------------ TeeFile on its own
Max(a, b) == IF a > b THEN a ELSE b

RECURSIVE Join(_)
\* b''.join(buffer)
Join(buffer) == IF Len(buffer) = 0 THEN <<>> ELSE Head(buffer) \o Join(Tail(buffer))

\* s[:n] and s[n:] of Python, where a negative n counts from the end
PySliceTo(s, n) == IF n >= 0 THEN SliceTo(s, n) ELSE SliceTo(s, Max(Len(s) + n, 0))
PySliceFrom(s, n) == IF n >= 0 THEN SliceFrom(s, n) ELSE SliceFrom(s, Max(Len(s) + n, 0))

\* faulty variant: what was read from the source is not kept for the other half
Buffered_dropped(your_buffer, extra) == your_buffer

\* self.your_buffer.append(extra)
Buffered(your_buffer, extra) == Append(your_buffer, extra)

\* faulty variant: what was not handed out is not put back
Kept_cleared(rest) == <<>>

\* self.my_buffer.clear(); if s: self.my_buffer.append(s)
Kept(rest) == IF rest # <<>> THEN <<rest>> ELSE <<>>

\* TeeFile.read(size) on the half whose my_buffer is bufs[my], with the source
\* standing at position at: [out, bufs, at] after the call
TeeFile_read_half(cells, at, bufs, my, size) ==
    LET your == 3 - my
        s == Join(bufs[my])
        taken == bufs[my] # <<>>
        out1 == IF taken THEN PySliceTo(s, size) ELSE <<>>
        rest == IF taken THEN PySliceFrom(s, size) ELSE <<>>
        mine == Kept(rest)
        size2 == size - Len(out1)
        extra == Bytes(file_read(cells, at, size2))
    IN  IF size = 0 THEN [out |-> <<>>, bufs |-> bufs, at |-> at]
        ELSE IF size2 # 0
        THEN [out |-> out1 \o extra,
              bufs |-> [bufs EXCEPT ![my] = mine, ![your] = Buffered(bufs[your], extra)],
              at |-> at + Len(extra)]
        ELSE [out |-> out1, bufs |-> [bufs EXCEPT ![my] = mine], at |-> at]

\* TeeFile.tee(f) was just called on a file
TeeInit ==
    /\ BuildIdle
    /\ DeleteIdle
    /\ manifest = NoFile
    /\ \E n \in 0..MaxSource : tar_file = SourceFile(n)
    /\ FilesIdle
    /\ CmdIdle

\* half h is asked for size bytes
TeeRead(h, size) ==
    /\ reads < MaxReads
    /\ LET r == TeeFile_read_half(tar_file, source_pos, tee_buffers, h, size)
       IN  /\ tee_buffers' = r.bufs
           /\ source_pos' = r.at
           /\ tee_pos' = [tee_pos EXCEPT ![h] = @ + Len(r.out)]
           /\ tee_out' = [tee_out EXCEPT ![h] = @ \o r.out]
    /\ reads' = reads + 1
    /\ requested_negative' = (requested_negative \/ size < 0)
    /\ UNCHANGED <<store, strip_prefix, queue_vars, tar_vars, wt_pc, wt_error,
                   manifest, post_vars, delete_vars, osf, osf_out, osf_last, cmd_vars>>

TeeNext == \E h \in 1..2, size \in (-1)..MaxRequest : TeeRead(h, size)

\* the two halves of one TeeFile.tee, read in any order
TeeSpec == TeeInit /\ [][TeeNext]_vars

\* ------------------------------------------------------------ the commands
\* what argparse hands a command: the command chosen, its --no-validate,
\* --delete and --force switches (False where the command has no such
\* switch) and whether a tar_path was given (it is optional for `delete`)
CmdArgs ==
    [command : {"archive"}, validate : BOOLEAN, delete : BOOLEAN, force : BOOLEAN,
     tar_path : {TRUE}]
    \cup [command : {"validate"}, validate : {FALSE}, delete : {FALSE}, force : {FALSE},
          tar_path : {TRUE}]
    \cup [command : {"delete"}, validate : BOOLEAN, delete : {FALSE}, force : BOOLEAN,
          tar_path : BOOLEAN]

\* what the user may type at the prompt
Answers == {"y", "Y", "n", "N", "", "yes"}

\* str.lower() on an answer
py_lower(answer) ==
    IF answer = "Y" THEN "y" ELSE IF answer = "N" THEN "n" ELSE answer

\* faulty variant: any answer is taken for a yes
Confirmed_any(answer) == TRUE

\* not (input("Delete objects? [y/N] ").lower() != 'y')
Confirmed(answer) == py_lower(answer) = "y"

\* what validate_tar may do when a command calls it: return, or raise
ValidateOutcomes == {Ok, VError("HashMismatch", <<1>>, <<>>)}

\* the rows write_tar may leave for the objects of the archived prefix: one
\* row per object in key order, with a TarMD5 that equals the ETag or not
ArchivedRows(objs) ==
    {rows \in UNION {[1..n -> DeleteRows] : n \in 0..Cardinality(DeleteKeys)} :
        /\ \A i \in 1..Len(rows) :
              /\ rows[i].Bucket = "source"
              /\ [Bucket |-> "source", Key |-> rows[i].Key] \in objs
        /\ \A i, j \in 1..Len(rows) : i < j => rows[i].Key[1] < rows[j].Key[1]
        /\ \A k \in DeleteKeys :
              [Bucket |-> "source", Key |-> k] \in objs
                  => \E i \in 1..Len(rows) : rows[i].Key = k}

\* main() has parsed the arguments and is about to call args.func
CmdInit ==
    /\ BuildIdle
    /\ FilesIdle
    /\ tar_file = <<>>
    /\ args \in CmdArgs
    /\ cmd_pc = "start"
    /\ answers = <<>>
    /\ IF args.command = "archive"
       THEN /\ manifest = NoFile
            /\ \E K \in SUBSET DeleteKeys :
                  objects = {[Bucket |-> "source", Key |-> k] : k \in K}
                                \cup {[Bucket |-> "source", Key |-> <<7>>]}
       ELSE \E n \in 0..MaxRows : \E rows \in [1..n -> DeleteRows] :
                /\ manifest = [exists |-> TRUE, header |-> FieldNames, rows |-> rows]
                /\ objects = InitialObjects(rows)
    /\ dry_run = TRUE
    /\ buckets = <<>>
    /\ dl_pc = "idle"
    /\ dl_pending = <<>>
    /\ dl_calls = <<>>

\* where a command goes once validation is behind it or was not asked for
AfterValidate ==
    IF args.command = "delete" \/ (args.command = "archive" /\ args.delete)
    THEN "delete" ELSE "returned"

\* archive_command up to the return of write_tar, which leaves the two files
\* or raises
archive_command(raised) ==
    /\ cmd_pc = "start"
    /\ args.command = "archive"
    /\ IF raised
       THEN /\ wt_pc' = "failed"
            /\ cmd_pc' = "raised"
            /\ UNCHANGED manifest
       ELSE /\ wt_pc' = "done"
            /\ \E rows \in ArchivedRows(objects) :
                  manifest' = [exists |-> TRUE, header |-> FieldNames, rows |-> rows]
            /\ cmd_pc' = IF args.validate THEN "validate" ELSE AfterValidate
    /\ UNCHANGED <<store, strip_prefix, queue_vars, tar_vars, wt_error, post_vars,
                   delete_vars, file_vars, args, answers>>

\* validate_command
validate_command ==
    /\ cmd_pc = "start"
    /\ args.command = "validate"
    /\ cmd_pc' = "validate"
    /\ UNCHANGED <<store, strip_prefix, queue_vars, tar_vars, wt_pc, wt_error, manifest,
                   post_vars, delete_vars, file_vars, args, answers>>

\* delete_command up to do_validate or do_delete
delete_command ==
    /\ cmd_pc = "start"
    /\ args.command = "delete"
    /\ cmd_pc' = IF args.validate
                 THEN IF ~args.tar_path THEN "usage" ELSE "validate"
                 ELSE AfterValidate
    /\ UNCHANGED <<store, strip_prefix, queue_vars, tar_vars, wt_pc, wt_error, manifest,
                   post_vars, delete_vars, file_vars, args, answers>>

\* do_validate(args): validate_tar returns or raises
do_validate(result) ==
    /\ cmd_pc = "validate"
    /\ validated' = [called |-> TRUE, strip_prefix |-> <<>>, result |-> result]
    /\ cmd_pc' = IF result = Ok THEN AfterValidate ELSE "raised"
    /\ UNCHANGED <<store, strip_prefix, queue_vars, tar_vars, wt_pc, wt_error, manifest,
                   tampered, rewrite, extracted, delete_vars, file_vars, args, answers>>

\* do_delete(args) up to its first call of delete_files: the dry run, or the
\* live call when --force was given
do_delete ==
    /\ cmd_pc = "delete"
    /\ dry_run' = ~args.force
    /\ dl_pc' = "init"
    /\ cmd_pc' = IF args.force THEN "live" ELSE "dry"
    /\ UNCHANGED <<store, strip_prefix, queue_vars, tar_vars, wt_pc, wt_error, manifest,
                   post_vars, buckets, dl_pending, dl_calls, objects, file_vars,
                   args, answers>>

\* the prompt for the next bucket the dry run returned is answered
Prompt(answer) ==
    /\ cmd_pc = "dry"
    /\ dl_pc = "done"
    /\ Len(answers) < Len(buckets)
    /\ answers' = Append(answers, answer)
    /\ cmd_pc' = IF Confirmed(answer) THEN "dry" ELSE "canceled"
    /\ UNCHANGED <<store, strip_prefix, queue_vars, tar_vars, wt_pc, wt_error, manifest,
                   post_vars, delete_vars, file_vars, args>>

\* every prompt was confirmed: delete_files(args.manifest_path, dry_run=False)
DeleteLive ==
    /\ cmd_pc = "dry"
    /\ dl_pc = "done"
    /\ Len(answers) = Len(buckets)
    /\ dry_run' = FALSE
    /\ dl_pc' = "init"
    /\ cmd_pc' = "live"
    /\ UNCHANGED <<store, strip_prefix, queue_vars, tar_vars, wt_pc, wt_error, manifest,
                   post_vars, buckets, dl_pending, dl_calls, objects, file_vars,
                   args, answers>>

\* the live delete_files has returned: do_delete reports and returns
Reported ==
    /\ cmd_pc = "live"
    /\ dl_pc = "done"
    /\ cmd_pc' = "returned"
    /\ UNCHANGED <<store, strip_prefix, queue_vars, tar_vars, wt_pc, wt_error, manifest,
                   post_vars, delete_vars, file_vars, args, answers>>

CmdNext ==
    \/ \E raised \in BOOLEAN : archive_command(raised)
    \/ validate_command
    \/ delete_command
    \/ \E result \in ValidateOutcomes : do_validate(result)
    \/ do_delete
    \/ DeleteFiles
    \/ \E ok \in SUBSET (1..DELETE_BATCH) : DeleteObjects(ok)
    \/ \E answer \in Answers : Prompt(answer)
    \/ DeleteLive
    \/ Reported

\* one run of s3mothball archive, validate or delete
CmdSpec == CmdInit /\ [][CmdNext]_vars


\* ------------------------------------------------------------------- claims
\* jobs that were submitted and whose result the consumer has not been given
Outstanding == {j \in Jobs : submitted[j] > 0 /\ yielded[j] = 0}

\* C1: in threaded_queue the jobs submitted and not yet consumed, and the
\* futures the generator holds, never number more than THREADS
C1_Backpressure ==
    /\ Cardinality(Outstanding) <= THREADS
    /\ Cardinality(futures) <= THREADS

\* C1 witness: the pool is full again after a freed slot was refilled
C1_Witness ==
    /\ items_next > THREADS
    /\ Cardinality(Outstanding) = THREADS

ExactlyOnce == \A j \in Jobs : submitted[j] = 1 /\ yielded[j] = 1

\* C2: no job is ever submitted or yielded twice; the generator ends only with
\* the source exhausted, no future left and every job submitted and yielded
\* once; and when no fetch fails and the consumer keeps pulling, it does end
C2_Terminates ==
    /\ [](\A j \in Jobs : submitted[j] <= 1 /\ yielded[j] <= 1)
    /\ [](gen_pc = "done" =>
            items_next = Len(store) /\ futures = {} /\ ExactlyOnce)
    /\ ([](faults = 0) => <>(gen_pc = "done" /\ ExactlyOnce))

\* C2 witness: the generator ended after refilling a slot, with no fault
C2_Witness ==
    /\ gen_pc = "done"
    /\ faults = 0
    /\ Len(store) > THREADS

\* a step taken once future.result() has raised
AfterFailure ==
    gen_pc \in {"shutdown", "raised"} =>
        /\ items_next' = items_next
        /\ submitted' = submitted
        /\ yielded' = yielded
        /\ gen_pc' \in {"shutdown", "raised"}
        /\ \A j \in Jobs : job[j].st = "running" => job'[j].st \in {"running", "ok", "err"}

\* C3: only results of jobs that succeeded are yielded; a failed job's error
\* reaches the consumer when its future is taken, after the jobs in flight
\* have run to completion; from then on nothing is taken from the source,
\* submitted or yielded, and no job in flight is cancelled
C3_FailureStops ==
    /\ [](\A j \in Jobs : yielded[j] > 0 => job[j].st = "ok")
    /\ [](gen_pc \in {"shutdown", "raised"} => job[cur].st = "err")
    /\ [](gen_pc = "raised" =>
            /\ wt_pc = "failed"
            /\ wt_error = Error("JobError", store[cur].Key)
            /\ \A j \in Jobs : job[j].st # "running")
    /\ [][AfterFailure]_vars

\* C3 witness: the error was raised while the source still had items and
\* another job, in flight at the time, finished without being yielded
C3_Witness ==
    /\ gen_pc = "raised"
    /\ items_next < Len(store)
    /\ \E j \in Jobs : j # cur /\ job[j].st = "ok" /\ yielded[j] = 0

RECURSIVE TarMembers(_, _)
\* the members a reader finds in the archive from offset off on
TarMembers(cells, off) ==
    LET m == TarNext(cells, off)
    IN  IF m.kind # "member" THEN <<>>
        ELSE <<m>> \o TarMembers(cells, m.offset_data + Blocks(m.size) * BLOCKSIZE)

\* the content bytes of member m that the archive holds
Content(cells, m) ==
    Bytes(SubSeq(cells, m.offset_data + 1, Min(m.offset_data + m.size, Len(cells))))

\* C4: validate_tar returns without error only if the records sorted by
\* TarOffset and the archive's entries are equally many and agree, entry by
\* entry, on name, header offset, data offset, size and content md5
C4_ValidateOnlyIf ==
    (validated.called /\ validated.result = Ok) =>
        LET recs == Sorted(manifest.rows, "TarOffset")
            ents == TarMembers(tar_file, 0)
        IN  /\ Len(recs) = Len(ents)
            /\ \A i \in 1..Len(recs) :
                  /\ ents[i].name = SliceFrom(recs[i].Key, Len(validated.strip_prefix))
                  /\ py_str(ents[i].offset) = recs[i].TarOffset
                  /\ py_str(ents[i].offset_data) = recs[i].TarDataOffset
                  /\ py_str(ents[i].size) = recs[i].TarSize
                  /\ hexdigest(md5_update(md5_new, Content(tar_file, ents[i]))) = recs[i].TarMD5

\* C4 witness: a validation of several entries, with a prefix stripped, passed
C4_Witness ==
    /\ validated.called /\ validated.result = Ok
    /\ validated.strip_prefix # <<>>
    /\ Len(manifest.rows) >= 2

\* C5: after a write_tar that succeeded, validate_tar called with the same
\* strip prefix on the untouched files succeeds
C5_RoundTrip ==
    (wt_pc = "done" /\ ~tampered /\ validated.called
        /\ validated.strip_prefix = strip_prefix) => validated.result = Ok

\* C6: after a write_tar with a non-empty strip prefix, validate_tar called
\* without a strip prefix on the untouched files succeeds
C6_NoPrefixNeeded ==
    (wt_pc = "done" /\ ~tampered /\ strip_prefix # <<>> /\ validated.called
        /\ validated.strip_prefix = <<>>) => validated.result = Ok

\* C7: every record write_tar persists has a TarStrippedPrefix field holding
\* the build's strip prefix, and its entry's name is Key[len(TarStrippedPrefix):]
C7_StrippedPrefixRecorded ==
    (wt_pc = "done" /\ ~tampered) =>
        \A i \in 1..Len(manifest.rows) :
            /\ "TarStrippedPrefix" \in DOMAIN manifest.rows[i]
            /\ manifest.rows[i].TarStrippedPrefix = strip_prefix
            /\ TarNext(tar_file, py_int(manifest.rows[i].TarOffset)).name
                 = SliceFrom(manifest.rows[i].Key, Len(manifest.rows[i].TarStrippedPrefix))

\* a step that appends a record to files_written
EntryAdded ==
    Len(files_written') = Len(files_written) + 1 =>
        /\ files_written'[Len(files_written')].TarOffset = tar_offset
        /\ tar_offset = Len(tar_file)

\* C8: every record's TarDataOffset is its TarOffset plus the length of the
\* header found in the archive at TarOffset, hence above TarOffset, and the
\* TarOffset of a record just added is the write position the entry began at
C8_DataOffset ==
    /\ [](~tampered =>
            \A i \in 1..Len(files_written) :
                LET r == files_written[i]
                    m == TarNext(tar_file, r.TarOffset)
                IN  /\ m.kind = "member"
                    /\ r.TarDataOffset = r.TarOffset + (m.offset_data - m.offset)
                    /\ r.TarDataOffset > r.TarOffset)
    /\ [][EntryAdded]_vars

\* C8 witness: one build recorded a one-block header and a longer one, the
\* latter not at the start of the archive
C8_Witness ==
    /\ ~tampered
    /\ \E i, k \in 1..Len(files_written) :
          /\ files_written[i].TarDataOffset - files_written[i].TarOffset = BLOCKSIZE
          /\ files_written[k].TarDataOffset - files_written[k].TarOffset > BLOCKSIZE
          /\ files_written[k].TarOffset > 0

\* C9: open_archived_file for an archived object's key yields exactly TarSize
\* bytes, the archive's bytes from TarDataOffset on; they are the object's
\* content and their md5 is the record's TarMD5
C9_Extract ==
    (wt_pc = "done" /\ ~tampered /\ extracted.called) =>
        \A i \in 1..Len(manifest.rows) :
            LET r == manifest.rows[i]
            IN  r.Key = extracted.key =>
                  /\ extracted.found
                  /\ py_str(Len(extracted.data)) = r.TarSize
                  /\ extracted.data =
                       Bytes(SubSeq(tar_file, py_int(r.TarDataOffset) + 1,
                                    py_int(r.TarDataOffset) + py_int(r.TarSize)))
                  /\ \E j \in Jobs : store[j].Key = r.Key /\ store[j].Body = extracted.data
                  /\ hexdigest(md5_update(md5_new, extracted.data)) = r.TarMD5

\* C9 witness: a non-empty object that is not the archive's first entry was
\* read back
C9_Witness ==
    /\ wt_pc = "done" /\ ~tampered /\ extracted.called /\ extracted.found
    /\ Len(extracted.data) > 0
    /\ \E i \in 1..Len(manifest.rows) :
          manifest.rows[i].Key = extracted.key /\ py_int(manifest.rows[i].TarOffset) > 0

\* C10: when an object's content bytes in the archive are not as many as the
\* store reported, write_tar has failed with the size-mismatch error naming
\* the object's key
C10_SizeMismatchRaised ==
    (wt_pc \in {"loop", "closed", "done", "failed"} /\ ~tampered) =>
        \A j \in Jobs :
            \A m \in {TarMembers(tar_file, 0)[i] : i \in 1..Len(TarMembers(tar_file, 0))} :
                (m.name = TarName(store[j].Key, strip_prefix)
                    /\ Len(Content(tar_file, m)) # job[j].ContentLength)
                => wt_error = Error("SizeMismatch", store[j].Key)

\* C11: write_tar on a source with no object completes without error and
\* leaves an archive without entries and a manifest without data rows
C11_EmptySourceCompletes ==
    (Len(store) = 0 /\ wt_pc \in {"done", "failed"}) =>
        /\ wt_pc = "done"
        /\ wt_error = NoError
        /\ TarMembers(tar_file, 0) = <<>>
        /\ manifest.exists
        /\ manifest.rows = <<>>

\* C12: after a write_tar that succeeded the manifest has one row for each
\* object fetched and its rows are in ascending order of Key
C12_ManifestSorted ==
    (wt_pc = "done" /\ ~tampered) =>
        /\ Len(manifest.rows) = Len(store)
        /\ \A j \in Jobs :
              Cardinality({i \in 1..Len(manifest.rows) :
                              manifest.rows[i].Key = store[j].Key}) = 1
        /\ \A i \in 1..(Len(manifest.rows) - 1) :
              StrLess(manifest.rows[i].Key, manifest.rows[i + 1].Key)

\* C12 witness: a manifest whose row order is not the archive's entry order
C12_Witness ==
    /\ wt_pc = "done" /\ ~tampered
    /\ \E i, k \in 1..Len(manifest.rows) :
          i < k /\ py_int(manifest.rows[i].TarOffset) > py_int(manifest.rows[k].TarOffset)

\* the names validate_tar derives from the records with this strip prefix are
\* the names write_tar gave the entries
NamesAgree(prefix) ==
    \A i \in 1..Len(files_written) :
        TarName(files_written[i].Key, strip_prefix)
            = SliceFrom(files_written[i].Key, Len(prefix))

\* C13: validate_tar on a manifest whose last row was dropped, and the
\* archive as built, raises "Not enough files found in manifest" naming the
\* dropped entry
C13_DroppedRowNotEnough ==
    (wt_pc = "done" /\ rewrite.kind = "drop" /\ Len(manifest.rows) >= 1
        /\ validated.called /\ NamesAgree(validated.strip_prefix)) =>
        validated.result =
            VError("NotEnough", SliceFrom(rewrite.key, Len(validated.strip_prefix)), <<>>)

\* C14: validate_tar on a manifest whose last row was duplicated, and the
\* archive as built, raises "Manifest files not found in tar" listing the
\* duplicated key
C14_DuplicatedRowExtra ==
    (wt_pc = "done" /\ rewrite.kind = "dup"
        /\ validated.called /\ NamesAgree(validated.strip_prefix)) =>
        validated.result = VError("ManifestNotFound", <<>>, <<rewrite.key>>)

\* the entries a reader finds in the archive
MemberSet(cells) ==
    {TarMembers(cells, 0)[i] : i \in 1..Len(TarMembers(cells, 0))}

\* the entries whose content holds the byte at position p of the archive
EntriesAt(cells, p) ==
    {m \in MemberSet(cells) : m.offset_data < p /\ p <= m.offset_data + m.size}

\* C15: when one content byte of one entry was changed, or one record's
\* TarMD5, and names, offsets and sizes agree, validate_tar raises the content
\* mismatch or the hash mismatch error naming that entry
C15_OneEntryCorrupted ==
    (wt_pc = "done" /\ validated.called /\ NamesAgree(validated.strip_prefix)) =>
        /\ rewrite.kind = "byte" =>
              \A m \in EntriesAt(tar_file, rewrite.pos) :
                  /\ validated.result.kind \in {"ContentMismatch", "HashMismatch"}
                  /\ validated.result.name = m.name
        /\ rewrite.kind = "TarMD5" =>
              /\ validated.result.kind \in {"ContentMismatch", "HashMismatch"}
              /\ validated.result.name
                   = SliceFrom(rewrite.key, Len(validated.strip_prefix))

\* C15 witness: a content byte of an entry that is not the archive's first
\* was changed and validate_tar was run
C15_Witness ==
    /\ wt_pc = "done" /\ validated.called /\ NamesAgree(validated.strip_prefix)
    /\ rewrite.kind = "byte"
    /\ \E m \in EntriesAt(tar_file, rewrite.pos) : m.offset > 0

Elems(s) == {s[i] : i \in 1..Len(s)}

RECURSIVE Concat(_)
Concat(ss) == IF Len(ss) = 0 THEN <<>> ELSE Head(ss) \o Concat(Tail(ss))

\* what delete_files reports for bucket b
BucketOf(b) ==
    IF BucketIndex(buckets, b) = 0 THEN NewBucket(b)
    ELSE buckets[BucketIndex(buckets, b)]

\* the delete_objects calls made on bucket b, in order
CallsOf(b) == SelectSeq(dl_calls, LAMBDA c : c.bucket = b)

\* the keys sent to the store for deletion from bucket b, in order
Sent(b) == Concat([k \in 1..Len(CallsOf(b)) |-> CallsOf(b)[k].keys])

\* the keys of the manifest's rows of bucket b whose ETag equals, or differs
\* from, their TarMD5, in manifest order
KeysWhere(b, equal) ==
    LET r == SelectSeq(manifest.rows,
                       LAMBDA e : e.Bucket = b /\ ((e.ETag = e.TarMD5) <=> equal))
    IN  [k \in 1..Len(r) |-> r[k].Key]

\* C16 as stated: the key of a record whose ETag differs from its TarMD5 is
\* never sent to the store for deletion nor reported in 'deleted', and is
\* reported in 'mismatched' of its bucket
C16_MismatchedNeverDeleted ==
    \A k \in 1..Len(manifest.rows) :
        LET r == manifest.rows[k]
        IN  r.ETag # r.TarMD5 =>
              /\ r.Key \notin Elems(Sent(r.Bucket))
              /\ r.Key \notin Elems(BucketOf(r.Bucket).deleted)
              /\ dl_pc # "init" => r.Key \in Elems(BucketOf(r.Bucket).mismatched)

\* C16 amended: the key of a record whose ETag differs from its TarMD5 is
\* reported in 'mismatched' of its bucket, and it is sent for deletion or
\* reported in 'deleted' only when another record of the same bucket and key
\* has an ETag equal to its TarMD5
C16_MismatchedGated ==
    \A k \in 1..Len(manifest.rows) :
        LET r == manifest.rows[k]
        IN  r.ETag # r.TarMD5 =>
              /\ (r.Key \in Elems(Sent(r.Bucket))
                    \/ r.Key \in Elems(BucketOf(r.Bucket).deleted)) =>
                    \E k2 \in 1..Len(manifest.rows) :
                        /\ manifest.rows[k2].Bucket = r.Bucket
                        /\ manifest.rows[k2].Key = r.Key
                        /\ manifest.rows[k2].ETag = manifest.rows[k2].TarMD5
              /\ dl_pc # "init" => r.Key \in Elems(BucketOf(r.Bucket).mismatched)

\* C16 witness: a live run deleted a key of a bucket and left alone another
\* key of that bucket, listed only with an ETag differing from its TarMD5
C16_Witness ==
    /\ ~dry_run /\ dl_pc = "done"
    /\ \E b \in DeleteBuckets :
          /\ BucketOf(b).deleted # <<>>
          /\ \E key \in Elems(BucketOf(b).mismatched) :
                key \notin Elems(KeysWhere(b, TRUE)) /\ key \notin Elems(Sent(b))

\* C17: a dry run makes no delete call, leaves the store's objects as they
\* were and reports empty 'deleted' and 'errors' for every bucket; in either
\* mode 'keys' and 'mismatched' of a bucket are the keys of its rows with
\* equal, respectively differing, ETag and TarMD5, in manifest order
C17_DryRun ==
    /\ dry_run =>
          /\ dl_calls = <<>>
          /\ objects = InitialObjects(manifest.rows)
          /\ \A i \in 1..Len(buckets) :
                buckets[i].deleted = <<>> /\ buckets[i].errors = <<>>
    /\ dl_pc = "done" =>
          /\ {buckets[i].bucket : i \in 1..Len(buckets)}
                = {manifest.rows[k].Bucket : k \in 1..Len(manifest.rows)}
          /\ \A b \in DeleteBuckets :
                /\ BucketOf(b).keys = KeysWhere(b, TRUE)
                /\ BucketOf(b).mismatched = KeysWhere(b, FALSE)

\* C17 witness: a dry run returned for a manifest with a bucket that has both
\* keys to delete and mismatched keys
C17_Witness ==
    /\ dry_run /\ dl_pc = "done"
    /\ \E b \in DeleteBuckets :
          BucketOf(b).keys # <<>> /\ BucketOf(b).mismatched # <<>>

\* C18: in live mode every delete call carries at most DELETE_BATCH keys, all
\* of them keys to delete of the call's bucket; when delete_files returns, the
\* keys sent for a bucket, call after call, are its keys to delete in manifest
\* order, each sent once, and its 'deleted' and 'errors' are the calls'
\* results one after the other
C18_Batches ==
    ~dry_run =>
        /\ \A c \in Elems(dl_calls) :
              /\ Len(c.keys) <= DELETE_BATCH
              /\ Elems(c.keys) \subseteq Elems(KeysWhere(c.bucket, TRUE))
        /\ dl_pc = "done" =>
              \A b \in DeleteBuckets :
                  /\ Sent(b) = KeysWhere(b, TRUE)
                  /\ BucketOf(b).deleted
                       = Concat([k \in 1..Len(CallsOf(b)) |-> CallsOf(b)[k].Deleted])
                  /\ BucketOf(b).errors
                       = Concat([k \in 1..Len(CallsOf(b)) |-> CallsOf(b)[k].Errors])

\* C18 witness: a live run needed two calls for one bucket, and the store
\* deleted some keys and refused others
C18_Witness ==
    /\ ~dry_run /\ dl_pc = "done"
    /\ \E b \in DeleteBuckets :
          /\ Len(CallsOf(b)) >= 2
          /\ BucketOf(b).deleted # <<>>
          /\ BucketOf(b).errors # <<>>

\* C19: whatever sizes are asked for, an OffsetSizeFile returns at most `size`
\* bytes in all, the bytes of the source from offset on in order, never moves
\* the source past the end of the window, and returns nothing once the window
\* is exhausted
C19_WindowClamped ==
    /\ Len(osf_out) <= osf.size
    /\ osf_out = Bytes(SubSeq(tar_file, osf.offset + 1, osf.offset + Len(osf_out)))
    /\ source_pos <= osf.offset + osf.size
    /\ (osf_last.called /\ osf_last.exhausted) => osf_last.out = <<>>

Yielded == {j \in Jobs : yielded[j] > 0}

\* C21: a result yielded is that of a job that has finished, and while the
\* consumer holds a result just yielded the slot it freed is already refilled:
\* THREADS jobs beyond those yielded have been submitted, or the whole source
C21_RefillAtYield ==
    /\ \A j \in Yielded : job[j].st = "ok"
    /\ gen_pc = "yielded" =>
          items_next = Min(Len(store), Cardinality(Yielded) + THREADS)

\* C21 amended: a result yielded is that of a job that has finished; while
\* the consumer holds a result just yielded the slot it freed is still empty
\* (THREADS - 1 jobs beyond those yielded have been submitted, or the whole
\* source), and it has been refilled by the time the generator waits again
C21_RefillAtNextPull ==
    /\ \A j \in Yielded : job[j].st = "ok"
    /\ gen_pc = "yielded" =>
          items_next = Min(Len(store), Cardinality(Yielded) + THREADS - 1)
    /\ gen_pc = "waiting" =>
          items_next = Min(Len(store), Cardinality(Yielded) + THREADS)

\* C21 witness: the consumer holds a result while the source still has a job
\* that was not submitted
C21_Witness ==
    /\ gen_pc = "yielded"
    /\ items_next < Len(store)

\* the records in the order their entries were written: files_written until
\* write_tar sorts it by Key
InWriteOrder == wt_pc \in {"loop", "closed", "failed"} /\ wt_error.kind # "IndexError"

\* a step of write_tar that changes the file at manifest_path
ManifestWritten ==
    (manifest' # manifest /\ ~tampered') =>
        /\ wt_pc = "closed"
        /\ ~manifest.exists
        /\ manifest'.exists

\* C23: write_tar writes the manifest once, after every entry was written and
\* the archive was closed; when a fetch job has failed or write_tar has raised
\* in its loop, no manifest exists
C23_ManifestOnceAtEnd ==
    /\ [][ManifestWritten]_vars
    /\ []((manifest.exists /\ ~tampered) =>
            /\ wt_pc \in {"done", "failed"}
            /\ gen_pc = "done"
            /\ Len(files_written) = Len(store)
            /\ Len(TarMembers(tar_file, 0)) = Len(store)
            /\ SubSeq(tar_file, Len(tar_file) - 2 * BLOCKSIZE + 1, Len(tar_file))
                 = Fill(NUL, 2 * BLOCKSIZE))
    /\ []((\E j \in Jobs : job[j].st = "err") => ~manifest.exists)
    /\ [](wt_error.kind \in {"JobError", "OSError", "SizeMismatch"} => ~manifest.exists)

\* C23 witness: a build that had written an entry failed on a later fetch
C23_Witness ==
    /\ wt_pc = "failed"
    /\ wt_error.kind = "JobError"
    /\ Len(files_written) >= 1
    /\ ~manifest.exists

\* C26: in write order the records' TarOffset values increase strictly and no
\* entry begins before the content of the one before it ends; the same holds
\* of the persisted rows taken in TarOffset order
C26_NoOverlap ==
    /\ InWriteOrder =>
          \A i \in 1..(Len(files_written) - 1) :
              /\ files_written[i + 1].TarOffset > files_written[i].TarOffset
              /\ files_written[i + 1].TarOffset
                   >= files_written[i].TarDataOffset + files_written[i].TarSize
    /\ (wt_pc = "done" /\ ~tampered) =>
          LET rows == Sorted(manifest.rows, "TarOffset")
          IN  \A i \in 1..(Len(rows) - 1) :
                  /\ py_int(rows[i + 1].TarOffset) > py_int(rows[i].TarOffset)
                  /\ py_int(rows[i + 1].TarOffset)
                       >= py_int(rows[i].TarDataOffset) + py_int(rows[i].TarSize)

\* C26 witness: three entries were written, one of them followed by padding
C26_Witness ==
    /\ InWriteOrder
    /\ Len(files_written) >= 3
    /\ \E i \in 1..(Len(files_written) - 1) :
          files_written[i + 1].TarOffset
              > files_written[i].TarDataOffset + files_written[i].TarSize

\* the checks of archive entry i that fail against record i of the manifest
\* taken in TarOffset order, each stated on the two files
FailedChecks(ents, recs, i, prefix) ==
    IF i > Len(recs) THEN {"NotEnough"}
    ELSE {k \in {"MismatchedKeys"} : ents[i].name # SliceFrom(recs[i].Key, Len(prefix))}
         \cup {k \in {"OffsetMismatch"} : ents[i].offset # py_int(recs[i].TarOffset)}
         \cup {k \in {"DataOffsetMismatch"} :
                   ents[i].offset_data # py_int(recs[i].TarDataOffset)}
         \cup {k \in {"SizeMismatch"} : ents[i].size # py_int(recs[i].TarSize)}
         \cup {k \in {"ContentMismatch"} :
                   StreamRead(tar_file, py_int(recs[i].TarDataOffset), ents[i].size)
                       # StreamRead(tar_file, ents[i].offset_data, ents[i].size)}
         \cup {k \in {"HashMismatch"} :
                   hexdigest(md5_update(md5_new, Content(tar_file, ents[i])))
                       # recs[i].TarMD5}

\* the checks of an entry in the order they run
CheckOrder ==
    <<"NotEnough", "MismatchedKeys", "OffsetMismatch", "DataOffsetMismatch",
      "SizeMismatch", "ContentMismatch", "HashMismatch">>

\* the first check, in the order they run, among those of `failed`
FirstCheck(failed) ==
    CheckOrder[CHOOSE n \in 1..Len(CheckOrder) :
                  /\ CheckOrder[n] \in failed
                  /\ \A m \in 1..(n - 1) : CheckOrder[m] \notin failed]

\* C22: an error of validate_tar on an archive it could read names the first
\* entry, in archive order, that fails a check, and the first check it fails
\* in the order manifest exhausted, name, header offset, data offset, size,
\* content, hash, whatever the later checks and entries would have found;
\* when no entry fails the error lists the keys of the records left over
C22_FirstInconsistency ==
    (validated.called /\ validated.result.kind \notin {"ReadError", "NoEntries"}) =>
        LET ents == TarMembers(tar_file, 0)
            recs == Sorted(manifest.rows, "TarOffset")
            prefix == validated.strip_prefix
            bad == {i \in 1..Len(ents) : FailedChecks(ents, recs, i, prefix) # {}}
        IN  IF bad # {}
            THEN LET first == CHOOSE i \in bad : \A j \in bad : i <= j
                 IN  /\ validated.result.kind
                            = FirstCheck(FailedChecks(ents, recs, first, prefix))
                     /\ validated.result.name = ents[first].name
                     /\ validated.result.name # <<>>
                     /\ validated.result.keys = <<>>
            ELSE IF Len(recs) > Len(ents)
            THEN /\ validated.result.kind = "ManifestNotFound"
                 /\ validated.result.keys
                        = [i \in 1..(Len(recs) - Len(ents)) |-> recs[Len(ents) + i].Key]
            ELSE validated.result = Ok

\* C22 witness: validate_tar stopped at an entry after the archive's first,
\* which fails two checks, with a failing entry behind it
C22_Witness ==
    /\ validated.called
    /\ validated.result.kind \notin {"ok", "ReadError", "NoEntries", "ManifestNotFound"}
    /\ LET ents == TarMembers(tar_file, 0)
           recs == Sorted(manifest.rows, "TarOffset")
           prefix == validated.strip_prefix
       IN  \E i \in 2..Len(ents) :
              /\ ents[i].name = validated.result.name
              /\ Cardinality(FailedChecks(ents, recs, i, prefix)) >= 2
              /\ \E j \in (i + 1)..Len(ents) : FailedChecks(ents, recs, j, prefix) # {}

\* the number of bytes the buffer of half h holds
Held(h) == Len(Join(tee_buffers[h]))

LiveDeleteCalled == dl_pc # "idle" /\ ~dry_run

\* C24: in a command, delete_files is called live, and the store is asked
\* to delete, only by `delete` or by `archive --delete`; when validation is
\* enabled only after validate_tar has returned without an error, and an
\* error in it prevents every delete_files call, the dry run included;
\* without --force only after the prompt of every bucket of the dry run was
\* answered y (in either case); until then the store holds every object
\* the manifest lists
C24_DeleteGated ==
    /\ LiveDeleteCalled =>
          /\ args.command = "delete" \/ (args.command = "archive" /\ args.delete)
          /\ args.validate => validated.called /\ validated.result = Ok
          /\ ~args.force =>
                /\ Len(answers) = Len(Partition(<<>>, manifest.rows))
                /\ \A i \in 1..Len(answers) : py_lower(answers[i]) = "y"
    /\ (validated.called /\ validated.result # Ok) => dl_pc = "idle"
    /\ ~LiveDeleteCalled =>
          /\ dl_calls = <<>>
          /\ manifest.exists => objects = InitialObjects(manifest.rows)

\* C24 witness: with validation enabled and without --force, the prompts of
\* two buckets were both confirmed and the store was asked to delete
C24_Witness ==
    /\ args.validate /\ ~args.force
    /\ Len(answers) = 2
    /\ LiveDeleteCalled
    /\ dl_calls # <<>>

====
